---- MODULE Spec2Model ----
(***************************************************************************)
(* Model of the EPO patent extraction page (src/python_code.py): the run   *)
(* button handler, get_token, search_patents_comprehensive and its three   *)
(* detail fetchers, with the upstream services as the environment.         *)
(*                                                                         *)
(* A Python str is a sequence of one-character strings; "" is << >>.       *)
(* A value that Python tests for truth is a record [t, s, kids]: a str     *)
(* (t = "text") or an lxml element (t = "elem", kids = it has children).   *)
(***************************************************************************)
EXTENDS Integers, Sequences, FiniteSets, TLC

VARIABLES
    pc,               \* position of the run: idle, auth, search, batch, docs, done
    outcome,          \* how the run ended, "running" before that
    client_ok,        \* client_id and client_secret are both non-empty
    max_patents, batch_size, include_register,
    upstream_total,   \* the number of results the upstream search holds
    token,            \* what get_token returned
    total_results, total_to_fetch, total_batches, batch_num,
    search_docs,      \* how many exchange-documents search_root holds, until batch 0
                      \* reads them
    documents,        \* how many documents of the page being processed are not yet
                      \* iterated; a document's content is drawn when the loop reaches it
    page_numbered,    \* how many documents of this page had a document number so far
    cur,              \* the locals of the document being processed
    all_records,
    search_log,       \* the Range of every request sent to the search endpoint
    detail_called,    \* a biblio or classifications request was sent
    register_called,  \* a register request was sent
    page_failed,      \* batches whose page request failed
    short_page,       \* a page held fewer numbered documents than its Range asked
    lookups,          \* per emitted record: its document and the register lookups that gave nothing
    taken,            \* how many documents reached the detail lookups
    since,            \* per API family, what came last: no request yet, a request,
                      \* or a time.sleep after its last request
    hasty,            \* the latest request followed the previous request of its
                      \* family with no time.sleep in between
    x_in, x_out, x_done   \* input and result of the pure function under check

vars == <<pc, outcome, client_ok, max_patents, batch_size, include_register,
          upstream_total, token, total_results, total_to_fetch, total_batches,
          batch_num, search_docs, documents, page_numbered, cur, all_records,
          search_log,
          detail_called, register_called, page_failed, short_page, lookups, taken,
          since, hasty,
          x_in, x_out, x_done>>

driver_vars == <<pc, outcome, client_ok, max_patents, batch_size, include_register,
          upstream_total, token, total_results, total_to_fetch, total_batches,
          batch_num, search_docs, documents, page_numbered, cur, all_records,
          search_log,
          detail_called, register_called, page_failed, short_page, lookups, taken,
          since, hasty>>

(***************************************************************************)
(* Python built-ins                                                        *)
(***************************************************************************)
Min(a, b) == IF a <= b THEN a ELSE b

\* the characters str.strip() removes (those for which str.isspace holds):
\* space, U+0009 to U+000D, U+001C to U+001F, U+0085, U+00A0 and U+1680,
\* written here as the characters themselves.  The remaining ones (U+2000
\* to U+200A, U+2028, U+2029, U+202F, U+205F, U+3000) cannot stand in a
\* string of this module and are left out of its alphabet.
Whitespace ==
    {" ", "\t", "\n", "\r", "\f",
     "", "", "", "", "", "", " ", " "}

RECURSIVE LStrip(_)
LStrip(s) == IF s # << >> /\ Head(s) \in Whitespace THEN LStrip(Tail(s)) ELSE s

RECURSIVE RStrip(_)
RStrip(s) ==
    IF s # << >> /\ s[Len(s)] \in Whitespace
    THEN RStrip(SubSeq(s, 1, Len(s) - 1)) ELSE s

\* str.strip()
Strip(s) == RStrip(LStrip(s))

\* str.replace(ch, "")
RECURSIVE Remove(_, _)
Remove(s, ch) ==
    IF s = << >> THEN << >>
    ELSE IF Head(s) = ch THEN Remove(Tail(s), ch)
    ELSE <<Head(s)>> \o Remove(Tail(s), ch)

\* sep.join(parts)
RECURSIVE Join(_, _)
Join(parts, sep) ==
    IF parts = << >> THEN << >>
    ELSE IF Len(parts) = 1 THEN parts[1]
    ELSE parts[1] \o sep \o Join(Tail(parts), sep)

Text(s) == [t |-> "text", s |-> s, kids |-> FALSE]
Elem(s, kids) == [t |-> "elem", s |-> s, kids |-> kids]

\* Python truth of a value: a str is true when non-empty, an lxml element
\* when it has children
Truthy(v) == IF v.t = "text" THEN v.s # << >> ELSE v.kids

\* The outcome of root.xpath(path): it raises, or it returns a list of values
Raised == [raises |-> TRUE, res |-> << >>]
Found(res) == [raises |-> FALSE, res |-> res]

(***************************************************************************)
(* safe_xpath and the fallback chains built on it                          *)
(***************************************************************************)
safe_xpath_nostrip(ev) ==
    IF ev.raises \/ ev.res = << >> THEN Text(<< >>) ELSE ev.res[1]

safe_xpath(ev) ==
    IF ev.raises THEN Text(<< >>)
    ELSE IF ev.res = << >> THEN Text(<< >>)
    ELSE IF ev.res[1].t = "text" THEN Text(Strip(ev.res[1].s))
    ELSE ev.res[1]

\* value = ""; for path in paths: value = safe_xpath(...); if value: break
RECURSIVE fallback_loop(_, _)
fallback_loop(evs, value) ==
    IF evs = << >> THEN value
    ELSE LET v == safe_xpath(Head(evs))
         IN  IF Truthy(v) THEN v ELSE fallback_loop(Tail(evs), v)

fallback(evs) == fallback_loop(evs, Text(<< >>))

(***************************************************************************)
(* extract_cpc_data, lines 231-261: the parsed classification document is  *)
(* the list, per entry of cpc_paths, of the elements that path selects; an *)
(* element is the list, per entry of symbol_paths, of the strings found.   *)
(***************************************************************************)
\* code = ""; for symbol_path in symbol_paths: ... if code: break
RECURSIVE symbol_loop(_, _)
symbol_loop(c, code) ==
    IF c = << >> THEN code
    ELSE LET results == Head(c)
         IN  IF results # << >>
             THEN LET stripped == Strip(results[1])
                  IN  IF stripped # << >> THEN stripped
                      ELSE symbol_loop(Tail(c), stripped)
             ELSE symbol_loop(Tail(c), code)

\* str(code).replace(" ", "").replace("/", "")
code_clean(code) == Remove(Remove(code, " "), "/")

\* the guard of cpc_main = code_clean[:4] at line 257
takes_main_any_length(cpc_main, clean) == cpc_main = << >>

takes_main(cpc_main, clean) == cpc_main = << >> /\ Len(clean) >= 4

\* for c in cpcs: ... the pair <<cpc_main, cpc_full>> after the loop
RECURSIVE cpc_elements(_, _, _)
cpc_elements(cpcs, cpc_main, cpc_full) ==
    IF cpcs = << >> THEN <<cpc_main, cpc_full>>
    ELSE LET code == symbol_loop(Head(cpcs), << >>)
         IN  IF code # << >>
             THEN LET clean == code_clean(code)
                  IN  cpc_elements(Tail(cpcs),
                          IF takes_main(cpc_main, clean)
                          THEN SubSeq(clean, 1, Min(4, Len(clean))) ELSE cpc_main,
                          Append(cpc_full, clean))
             ELSE cpc_elements(Tail(cpcs), cpc_main, cpc_full)

\* for cpc_path in cpc_paths: cpcs = xpath(cpc_path); if cpcs: ...; break
RECURSIVE cpc_paths_loop(_)
cpc_paths_loop(cpc_root) ==
    IF cpc_root = << >> THEN << << >>, << >> >>
    ELSE IF Head(cpc_root) # << >> THEN cpc_elements(Head(cpc_root), << >>, << >>)
    ELSE cpc_paths_loop(Tail(cpc_root))

\* the CPC_Main and CPC_Full fields of the record, lines 403-404
cpc_fields(cpc) == [CPC_Main |-> cpc[1], CPC_Full |-> Join(cpc[2], <<";">>)]

(***************************************************************************)
(* Bounds and sample texts of the pure-function checks                     *)
(***************************************************************************)
\* candidate paths in a fallback chain
MaxPaths == 2
\* nodes one candidate path selects
MaxMatches == 2
\* classification elements in a document
MaxCodes == 3

SeqsUpTo(S, n) == UNION {[1..k -> S] : k \in 0..n}

\* node texts: empty, blank (the indentation of a pretty-printed document),
\* padded (U+00A0 and a newline before the value, U+000B after it), plain
SampleTexts == {<< >>, <<"\n", " ", "\t">>, <<" ", "\n", "a", "">>, <<"b">>}

\* what evaluating one candidate path can give
Evaluations ==
    {Raised} \cup {Found(r) : r \in SeqsUpTo({Text(s) : s \in SampleTexts}, MaxMatches)}

\* symbol texts: the two codes of the classification example, a code that
\* is short once cleaned, a long code, a blank and a lone slash
SampleCodes ==
    { <<"A","0","1","B","3","3","/","0","0">>,
      <<"A","0","1","B"," ","3","5","/","0","0">>,
      <<"\n","B","2","/","\t">>,
      <<"C","0","7","D","9">>,
      <<"\n"," ">>,
      <<"/">> }

(***************************************************************************)
(* SpecExtract: the fallback chain applied to every bounded list of        *)
(* candidate evaluations.  SpecCpc: the classification fields computed     *)
(* from every bounded list of symbol texts.                                *)
(***************************************************************************)
DriverIdle ==
    /\ pc = "off" /\ outcome = "running" /\ client_ok = FALSE
    /\ max_patents = 1 /\ batch_size = 1 /\ include_register = FALSE
    /\ upstream_total = 0 /\ token = [none |-> TRUE, s |-> << >>]
    /\ total_results = 0 /\ total_to_fetch = 0 /\ total_batches = 0
    /\ batch_num = 0 /\ search_docs = 0 /\ documents = 0 /\ page_numbered = 0
    /\ cur = << >>
    /\ all_records = << >> /\ search_log = << >>
    /\ detail_called = FALSE /\ register_called = FALSE
    /\ page_failed = {} /\ short_page = FALSE /\ lookups = << >> /\ taken = 0
    /\ since = [family \in {"ops", "register"} |-> "none"] /\ hasty = FALSE

InitExtract ==
    /\ DriverIdle
    /\ x_in \in SeqsUpTo(Evaluations, MaxPaths)
    /\ x_out = << >>
    /\ x_done = FALSE

ApplyExtract ==
    /\ ~x_done
    /\ x_out' = fallback(x_in).s
    /\ x_done' = TRUE
    /\ UNCHANGED <<x_in, driver_vars>>

SpecExtract == InitExtract /\ [][ApplyExtract]_vars

\* a one-path document whose k-th element carries the k-th symbol text
cpc_root_of(texts) == << [k \in 1..Len(texts) |-> << <<texts[k]>> >>] >>

InitCpc ==
    /\ DriverIdle
    /\ x_in \in SeqsUpTo(SampleCodes, MaxCodes)
    /\ x_out = << >>
    /\ x_done = FALSE

ApplyCpc ==
    /\ ~x_done
    /\ x_out' = cpc_fields(cpc_paths_loop(cpc_root_of(x_in)))
    /\ x_done' = TRUE
    /\ UNCHANGED <<x_in, driver_vars>>

SpecCpc == InitCpc /\ [][ApplyCpc]_vars

(***************************************************************************)
(* C8: the fallback chain returns the trimmed first match of the first     *)
(* candidate whose trimmed first match is non-empty, and the empty string  *)
(* exactly when no candidate has one; a candidate that raises counts as a  *)
(* candidate without a match.                                              *)
(***************************************************************************)
Yields(ev) == IF ev.raises \/ ev.res = << >> THEN << >> ELSE Strip(ev.res[1].s)

Hits(evs) == {k \in 1..Len(evs) : Yields(evs[k]) # << >>}

FirstHit(evs) == CHOOSE k \in Hits(evs) : \A j \in Hits(evs) : k <= j

C8_FirstNonEmptyCandidate ==
    x_done =>
        /\ Hits(x_in) # {} => x_out = Yields(x_in[FirstHit(x_in)])
        /\ Hits(x_in) = {} <=> x_out = << >>

\* a raising first candidate, a blank second match list, a padded value taken
C8_Witness ==
    /\ x_done
    /\ Len(x_in) = 2
    /\ x_in[1].raises
    /\ x_in[2] = Found(<<Text(<<" ", "\n", "a", "">>), Text(<<"b">>)>>)
    /\ x_out = <<"a">>

(***************************************************************************)
(* C9 as stated: CPC_Full is the cleaned codes joined by ";" in order and  *)
(* CPC_Main is the first 4 characters of the first cleaned code, also when *)
(* that code is shorter than 4 characters.                                 *)
(***************************************************************************)
\* the codes the document returns: the non-blank symbol texts, trimmed
RECURSIVE ReturnedCodes(_)
ReturnedCodes(texts) ==
    IF texts = << >> THEN << >>
    ELSE IF Strip(Head(texts)) = << >> THEN ReturnedCodes(Tail(texts))
    ELSE <<Strip(Head(texts))>> \o ReturnedCodes(Tail(texts))

Cleaned(texts) ==
    LET codes == ReturnedCodes(texts)
    IN  [k \in 1..Len(codes) |->
            SelectSeq(codes[k], LAMBDA ch : ch \notin {" ", "/"})]

First4(s) == [k \in 1..Min(4, Len(s)) |-> s[k]]

FullIsJoined == x_out.CPC_Full = Join(Cleaned(x_in), <<";">>)

C9_MainOfFirstCode ==
    x_done =>
        /\ FullIsJoined
        /\ x_out.CPC_Main =
              IF Cleaned(x_in) = << >> THEN << >> ELSE First4(Cleaned(x_in)[1])

(***************************************************************************)
(* C9 amended: CPC_Full is the cleaned codes joined by ";" in order and    *)
(* CPC_Main is the first 4 characters of the first cleaned code that has   *)
(* at least 4 characters, the empty string when there is none.             *)
(***************************************************************************)
LongCodes(texts) == SelectSeq(Cleaned(texts), LAMBDA c : Len(c) >= 4)

C9_MainOfFirstLongCode ==
    x_done =>
        /\ FullIsJoined
        /\ x_out.CPC_Main =
              IF LongCodes(x_in) = << >> THEN << >> ELSE First4(LongCodes(x_in)[1])

\* the classification example, and a short first code passed over
C9_Witness ==
    /\ x_done
    /\ \/ /\ x_in = << <<"A","0","1","B","3","3","/","0","0">>,
                       <<"A","0","1","B"," ","3","5","/","0","0">> >>
          /\ x_out.CPC_Main = <<"A","0","1","B">>
          /\ x_out.CPC_Full = <<"A","0","1","B","3","3","0","0",";",
                                "A","0","1","B","3","5","0","0">>
       \/ /\ x_in = << <<"\n","B","2","/","\t">>, <<"C","0","7","D","9">> >>
          /\ x_out.CPC_Main = <<"C","0","7","D">>

(***************************************************************************)
(* get_token, lines 44-65.  A token is None or a str.                      *)
(***************************************************************************)
None == [none |-> TRUE, s |-> << >>]
Str(s) == [none |-> FALSE, s |-> s]

\* if token: (line 468)
token_not_none(tok) == ~tok.none

token_truthy(tok) == ~tok.none /\ tok.s # << >>

\* the response to the token request: requests.post raises, or answers with
\* a status and a body that is JSON or not, with or without access_token
TokenResponses ==
    { [raises |-> TRUE,  status |-> 0,   json |-> FALSE, access_token |-> None],
      [raises |-> FALSE, status |-> 401, json |-> TRUE,  access_token |-> None],
      [raises |-> FALSE, status |-> 200, json |-> FALSE, access_token |-> None],
      [raises |-> FALSE, status |-> 200, json |-> TRUE,  access_token |-> None],
      [raises |-> FALSE, status |-> 200, json |-> TRUE,  access_token |-> Str(<< >>)],
      [raises |-> FALSE, status |-> 200, json |-> TRUE,
       access_token |-> Str(<<"t", "k">>)] }

get_token(resp) ==
    IF resp.raises THEN None
    ELSE IF resp.status = 200
         THEN IF resp.json THEN resp.access_token ELSE None
         ELSE None

(***************************************************************************)
(* An exchange-document of a search page, as the values its xpath queries  *)
(* and attribute reads give (lines 329-368).                               *)
(*   attr_num     doc.attrib.get("doc-number"), << >> when absent          *)
(*   oid          doc.attrib.get("doc-id", "")                             *)
(*   doc_id_elem  << >>, or one evaluation of ./ex:doc-number on the first *)
(*                epodoc document-id                                       *)
(*   pub_ref      << >>, or the country, number, kind and date of the      *)
(*                first epodoc document-id of the publication-reference    *)
(*   applicant    the .text of each applicant-name/name element            *)
(*   country      the .text of each applicant address country element     *)
(***************************************************************************)
NoText == Found(<< >>)
OneText(s) == Found(<<Text(s)>>)

\* numbered by attribute, with a publication reference and an applicant
DocFull ==
    [attr_num |-> <<"1">>, oid |-> <<"x">>,
     doc_id_elem |-> <<Found(<<Elem(<<"1">>, FALSE)>>)>>,
     pub_ref |-> <<[country |-> OneText(<<"E", "P">>), number |-> OneText(<<"1">>),
                    kind |-> OneText(<<"A">>), date |-> <<<<"d", "1">>>>]>>,
     applicant |-> <<<<" ", "n">>>>, country |-> <<<<"D", "E">>>>]

\* numbered by attribute, nothing else
DocBare ==
    [attr_num |-> <<"2">>, oid |-> << >>, doc_id_elem |-> << >>,
     pub_ref |-> << >>, applicant |-> << >>, country |-> << >>]

\* no document number anywhere
DocNoNumber ==
    [attr_num |-> << >>, oid |-> <<"y">>, doc_id_elem |-> << >>,
     pub_ref |-> << >>, applicant |-> <<<<"m">>>>, country |-> << >>]

\* the number only in the doc-number child of the epodoc document-id
DocChildNumber ==
    [attr_num |-> << >>, oid |-> <<"z">>,
     doc_id_elem |-> <<Found(<<Elem(<<"3">>, FALSE)>>)>>,
     pub_ref |-> <<[country |-> OneText(<<"E", "P">>), number |-> OneText(<<"3">>),
                    kind |-> NoText, date |-> << >>]>>,
     applicant |-> << >>, country |-> << >>]

SearchDocs == {DocFull, DocBare, DocNoNumber, DocChildNumber}

\* lines 329-333: doc_num before the search-result fields are read
doc_number(doc) ==
    IF doc.attr_num # << >> THEN Text(doc.attr_num)
    ELSE IF doc.doc_id_elem # << >> THEN safe_xpath(doc.doc_id_elem[1])
    ELSE Text(<< >>)

\* str() of doc_num: an lxml element prints as its repr
str_of(v) == IF v.t = "text" THEN v.s ELSE <<"<", "E", "l", "e", "m", ">">>

\* lines 341-372: the fields read from the search result itself
search_fields(doc) ==
    LET has_ref == doc.pub_ref # << >>
        ref == doc.pub_ref[1]
        country == IF has_ref THEN safe_xpath(ref.country).s ELSE << >>
        number == IF has_ref THEN safe_xpath(ref.number).s ELSE << >>
        kind == IF has_ref THEN safe_xpath(ref.kind).s ELSE << >>
        full_doc_number ==
            IF has_ref /\ country # << >> /\ number # << >>
            THEN country \o number \o kind ELSE << >>
    IN  [doc_num |-> IF full_doc_number # << >> THEN full_doc_number
                     ELSE str_of(doc_number(doc)),
         oid |-> doc.oid,
         search_pub_date |->
             IF has_ref /\ ref.date # << >> THEN ref.date[1] ELSE << >>,
         search_applicant |->
             IF doc.applicant # << >> /\ doc.applicant[1] # << >>
             THEN Strip(doc.applicant[1]) ELSE << >>,
         search_applicant_country |->
             IF doc.country # << >> /\ doc.country[1] # << >>
             THEN Strip(doc.country[1]) ELSE << >>]

(***************************************************************************)
(* extract_biblio_data, lines 127-202.  A response is a failure of some    *)
(* kind or a parsed document, given as the evaluations of the candidate    *)
(* paths of its three fields.                                              *)
(***************************************************************************)
NoBody == [date |-> << >>, name |-> << >>, country |-> << >>]

\* every field under its first candidate path, the date padded
BiblioFull ==
    [date |-> <<OneText(<<" ", "d", "9">>), OneText(<<"d", "0">>)>>,
     name |-> <<OneText(<<"N">>), NoText>>,
     country |-> <<OneText(<<"F", "R">>), NoText>>]

\* a blank name and nothing else
BiblioBlank ==
    [date |-> <<NoText, NoText>>,
     name |-> <<OneText(<<" ">>), Raised>>,
     country |-> <<NoText, NoText>>]

\* the bibliographic document the upstream holds for a document
biblio_of(doc) == IF doc = DocFull THEN BiblioFull ELSE BiblioBlank

\* what a biblio request for the document can answer: requests.get raises,
\* 404, another status or an empty body, a body that does not parse, or the
\* document's bibliographic data
BiblioResponses(doc) ==
    { [kind |-> k, body |-> NoBody] :
        k \in {"exception", "not_found", "bad_status", "unparseable"} }
    \cup { [kind |-> "ok", body |-> biblio_of(doc)] }

\* biblio_urls, lines 129-132: the epodoc address, then the docdb address
biblio_urls == <<"epodoc", "docdb">>

\* lines 144-197: what a response that parses makes extract_biblio_data return
biblio_found(body) ==
    [pub_date |-> fallback(body.date).s,
     applicant_name |-> fallback(body.name).s,
     applicant_country |-> fallback(body.country).s]

\* line 202: return "", "", ""
biblio_nothing ==
    [pub_date |-> << >>, applicant_name |-> << >>, applicant_country |-> << >>]

(***************************************************************************)
(* extract_cpc_data, lines 204-266                                         *)
(***************************************************************************)
\* the two codes of the classification example under the second cpc path
CpcExample ==
    << << >>,
       << << <<<<"A","0","1","B","3","3","/","0","0">>>> >>,
          << << >>, <<<<"A","0","1","B"," ","3","5","/","0","0">>>> >> >> >>

\* one classification element whose symbol is blank
CpcBlank == << << << <<<<" ">>>> >> >> >>

\* the classification document the upstream holds for a document
cpc_of(doc) == IF doc = DocFull THEN CpcExample ELSE CpcBlank

CpcResponses(doc) ==
    { [kind |-> k, root |-> << >>] :
        k \in {"exception", "not_found", "bad_status", "unparseable"} }
    \cup { [kind |-> "ok", root |-> cpc_of(doc)] }

\* cpc_urls, lines 206-209
cpc_urls == <<"epodoc", "docdb">>

\* line 266: return "", []
cpc_nothing == << << >>, << >> >>

(***************************************************************************)
(* fetch_register_data, lines 85-125                                       *)
(***************************************************************************)
RegisterFields ==
    {"RepName", "RepCountry", "OpponentName", "OppositionFilingDate",
     "AppealNr", "AppealResult", "AppealDate"}

\* the keys of endpoints in order, lines 93-97
endpoints == <<"rep", "opp", "appeal">>

\* what one register endpoint answers: requests.get raises, a status that is
\* not 200 or no content, a body that is not JSON, a JSON body without
\* entries, or a JSON body whose first entry carries every key
RegisterFailures == {"exception", "bad_status", "bad_json", "no_entries"}

\* the register entries the upstream holds for a document: a representative
\* for one, nothing for the others
register_of(doc) == IF doc = DocFull THEN {"rep"} ELSE {}

RegisterResponses(doc, key) ==
    RegisterFailures \cup (IF key \in register_of(doc) THEN {"ok"} ELSE {})

\* lines 87-91
register_blank ==
    [RepName |-> << >>, RepCountry |-> << >>,
     OpponentName |-> << >>, OppositionFilingDate |-> << >>,
     AppealNr |-> << >>, AppealResult |-> << >>, AppealDate |-> << >>]

\* lines 103-123 with a failed lookup marking its first field
register_pass_marking(data, key, resp) ==
    IF resp = "ok" THEN data
    ELSE IF key = "rep" THEN [data EXCEPT !.RepName = <<"?">>]
    ELSE IF key = "opp" THEN [data EXCEPT !.OpponentName = <<"?">>]
    ELSE [data EXCEPT !.AppealNr = <<"?">>]

\* lines 103-123: one pass of the loop over the endpoints
register_pass(data, key, resp) ==
    IF resp # "ok" THEN data
    ELSE IF key = "rep"
         THEN [data EXCEPT !.RepName = <<"R">>, !.RepCountry = <<"G", "B">>]
    ELSE IF key = "opp"
         THEN [data EXCEPT !.OpponentName = <<"O">>,
                           !.OppositionFilingDate = <<"d", "5">>]
    ELSE [data EXCEPT !.AppealNr = <<"T", "7">>, !.AppealResult = <<"r">>,
                      !.AppealDate = <<"d", "6">>]

\* reg_data = {} (line 392)
no_register_data == [f \in {} |-> << >>]

\* lines 397-406
make_record(c, cpc, reg_data) ==
    [OID |-> c.oid,
     Document_Number |-> c.doc_num,
     Publication_Date |-> c.pub_date,
     Applicant_Name |-> c.applicant_name,
     Applicant_Country |-> c.applicant_country,
     CPC_Main |-> cpc_fields(cpc).CPC_Main,
     CPC_Full |-> cpc_fields(cpc).CPC_Full] @@ reg_data

(***************************************************************************)
(* The run: the button handler (lines 450-547) calling get_token and       *)
(* search_patents_comprehensive (lines 269-418).  batch_size is one of the *)
(* sizes the page offers; max_patents ranges over small values.  Each      *)
(* step that reads an upstream answer is written over the set of answers   *)
(* the upstream may give, so that a scenario can fix the upstream.         *)
(***************************************************************************)
\* largest max_patents
MaxPatents == 3
\* the batch sizes the page offers, line 440
BatchSizes == {2, 5, 10}
\* largest number of results the upstream search holds
MaxTotal == 3

Init ==
    /\ pc = "idle" /\ outcome = "running"
    /\ client_ok \in BOOLEAN
    /\ max_patents \in 1..MaxPatents
    /\ batch_size \in BatchSizes
    /\ include_register \in BOOLEAN
    /\ upstream_total \in 0..MaxTotal
    /\ token = None
    /\ total_results = 0 /\ total_to_fetch = 0 /\ total_batches = 0
    /\ batch_num = 0 /\ search_docs = 0 /\ documents = 0 /\ page_numbered = 0
    /\ cur = << >>
    /\ all_records = << >> /\ search_log = << >>
    /\ detail_called = FALSE /\ register_called = FALSE
    /\ page_failed = {} /\ short_page = FALSE /\ lookups = << >> /\ taken = 0
    /\ since = [family \in {"ops", "register"} |-> "none"] /\ hasty = FALSE
    /\ x_in = << >> /\ x_out = << >> /\ x_done = FALSE

pure_vars == <<x_in, x_out, x_done>>
rate_vars == <<since, hasty>>

\* The API families are "ops", the search, biblio and classifications
\* endpoints of ops.epo.org (lines 274, 130-131, 207-208), and "register",
\* the endpoints of register.epo.org (lines 94-96).
\* time.sleep(1), lines 101, 136, 213 and 316: the delay has elapsed for
\* every family
sleep(s) == [family \in DOMAIN s |-> IF s[family] = "request" THEN "slept" ELSE s[family]]

\* requests.get to an endpoint of the family, lines 102, 137, 214, 282, 311
request(s, family) == [s EXCEPT ![family] = "request"]

\* the request about to be sent follows the last request of its family with
\* no time.sleep in between
follows_at_once(s, family) == s[family] = "request"
input_vars == <<client_ok, max_patents, batch_size, include_register, upstream_total>>
search_vars == <<total_results, total_to_fetch, total_batches, search_docs>>
page_vars == <<batch_num, documents, page_numbered>>
ghost_flags == <<detail_called, register_called, page_failed, short_page, taken>>

\* lines 450-453: if not client_id or not client_secret
RunButton ==
    /\ pc = "idle"
    /\ pc' = IF client_ok THEN "auth" ELSE "done"
    /\ outcome' = IF client_ok THEN outcome ELSE "no_credentials"
    /\ UNCHANGED <<input_vars, token, search_vars, page_vars, cur, all_records,
                   search_log, ghost_flags, lookups, pure_vars, rate_vars>>

\* lines 465-468 and 545-547: token = get_token(...); if token: ... else: ...
AuthenticateOn(Resps) ==
    /\ pc = "auth"
    /\ \E resp \in Resps :
          /\ token' = get_token(resp)
          /\ pc' = IF token_truthy(token') THEN "search" ELSE "done"
          /\ outcome' = IF token_truthy(token') THEN outcome ELSE "auth_failed"
    /\ UNCHANGED <<input_vars, search_vars, page_vars, cur, all_records,
                   search_log, ghost_flags, lookups, pure_vars, rate_vars>>

Authenticate == AuthenticateOn(TokenResponses)

\* what the search endpoint answers: requests.get raises, a status that is
\* not 200, a body that does not parse, a body without total-result-count,
\* or a page of exchange-documents with the count; a page holds any number
\* of documents up to one more than the Range asks
SearchResponses ==
    { [kind |-> k, docs |-> 0] : k \in {"exception", "http_error", "unparseable"} }
    \cup { [kind |-> k, docs |-> n] : k \in {"no_count", "ok"}, n \in 0..(batch_size + 1) }

\* lines 281-289: raise_for_status, etree.fromstring and int() all inside the try
first_search_fails(resp) == resp.kind # "ok"

\* lines 309-319: only the request, the status test and the parse
page_request_fails(resp) == resp.kind \in {"exception", "http_error", "unparseable"}

\* line 294, with math.ceil taken for a floor
Floor(a, b) == a \div b

\* math.ceil(a / b) for a >= 0, b >= 1
Ceil(a, b) == (a + b - 1) \div b

\* lines 279-297
SearchFirstOn(Resps) ==
    /\ pc = "search"
    /\ search_log' = Append(search_log, <<1, batch_size>>)
    /\ hasty' = follows_at_once(since, "ops")
    /\ since' = request(since, "ops")
    /\ \E resp \in Resps :
          IF first_search_fails(resp)
          THEN /\ pc' = "done"
               /\ outcome' = "search_failed"
               /\ UNCHANGED <<search_vars, batch_num>>
          ELSE /\ total_results' = upstream_total
               /\ total_to_fetch' = Min(upstream_total, max_patents)
               /\ total_batches' = Ceil(Min(upstream_total, max_patents), batch_size)
               /\ search_docs' = resp.docs
               /\ batch_num' = 0
               /\ pc' = "batch"
               /\ UNCHANGED outcome
    /\ UNCHANGED <<input_vars, token, documents, page_numbered, cur, all_records,
                   ghost_flags, lookups, pure_vars>>

SearchFirst == SearchFirstOn(SearchResponses)

\* line 300, counting from 0
start_idx_from_zero == batch_num * batch_size

start_idx == batch_num * batch_size + 1

\* line 301 with the end of the range not cut at total_to_fetch
end_idx_uncut == start_idx + batch_size - 1

\* line 301
end_idx == Min(start_idx + batch_size - 1, total_to_fetch)

\* lines 312-319 with the accumulated records given up
after_page_failure_reset(records) == << >>

\* lines 312-319: the failing branches leave all_records alone
after_page_failure(records) == records

\* lines 314 and 319 with break for continue
batch_after_failure_break(n) == total_batches

\* lines 314 and 319: continue
batch_after_failure(n) == n + 1

\* lines 299-322: one pass of the batch loop up to the document loop
FetchBatchOn(Resps) ==
    /\ pc = "batch"
    /\ batch_num < total_batches
    /\ page_numbered' = 0
    /\ IF batch_num = 0
       THEN /\ documents' = search_docs
            /\ search_docs' = 0
            /\ pc' = "docs"
            /\ UNCHANGED <<batch_num, search_log, page_failed, all_records, rate_vars>>
       ELSE /\ search_log' = Append(search_log, <<start_idx, end_idx>>)
            /\ hasty' = follows_at_once(since, "ops")
            /\ UNCHANGED search_docs
            /\ \E resp \in Resps :
                  IF page_request_fails(resp)
                  THEN /\ page_failed' = page_failed \cup {batch_num}
                       /\ batch_num' = batch_after_failure(batch_num)
                       /\ all_records' = after_page_failure(all_records)
                       /\ since' = request(since, "ops")
                       /\ UNCHANGED <<documents, pc>>
                  ELSE /\ documents' = resp.docs
                       /\ since' = sleep(request(since, "ops"))
                       /\ pc' = "docs"
                       /\ UNCHANGED <<batch_num, page_failed, all_records>>
    /\ UNCHANGED <<input_vars, token, total_results, total_to_fetch, total_batches,
                   cur, outcome, detail_called, register_called, short_page,
                   lookups, taken, pure_vars>>

FetchBatch == FetchBatchOn(SearchResponses)

\* lines 325 and 414 with the test left out
cap_never == FALSE

\* lines 325 and 414: len(all_records) >= max_patents
cap_reached == Len(all_records) >= max_patents

\* lines 324-375: the next document of the page, up to the detail lookups
NextDocumentOn(Docs) ==
    /\ pc = "docs"
    /\ documents > 0
    /\ ~cap_reached
    /\ documents' = documents - 1
    /\ \E doc \in Docs :
          IF Truthy(doc_number(doc))
          THEN /\ cur' = [doc |-> doc, f |-> search_fields(doc), url |-> 1,
                          cpc |-> cpc_nothing, reg_data |-> no_register_data,
                          reg_failed |-> {}]
               /\ taken' = taken + 1
               /\ page_numbered' = page_numbered + 1
               /\ pc' = "biblio"
          ELSE UNCHANGED <<cur, pc, taken, page_numbered>>
    /\ UNCHANGED <<input_vars, token, search_vars, batch_num, all_records, outcome,
                   search_log, detail_called, register_called, page_failed,
                   short_page, lookups, pure_vars, rate_vars>>

NextDocument == NextDocumentOn(SearchDocs)

\* line 378 with a document given up when no biblio response parsed
after_biblio_drop(found) == IF found THEN "cpc" ELSE "docs"

\* where a document goes once extract_biblio_data has returned (line 378):
\* found tells whether a response parsed
after_biblio(found) == "cpc"

\* lines 378-386: one pass of the loop of extract_biblio_data and, at its
\* return, the fallback to the fields of the search result
FetchBiblioOn(Resps) ==
    /\ pc = "biblio"
    /\ detail_called' = TRUE
    /\ hasty' = follows_at_once(sleep(since), "ops")
    /\ since' = request(sleep(since), "ops")
    /\ \E resp \in Resps[cur.doc] :
          IF resp.kind # "ok" /\ cur.url < Len(biblio_urls)
          THEN /\ cur' = [cur EXCEPT !.url = cur.url + 1]
               /\ UNCHANGED pc
          ELSE LET b == IF resp.kind = "ok" THEN biblio_found(resp.body)
                        ELSE biblio_nothing
               IN  /\ cur' = [cur EXCEPT
                         !.url = 1,
                         !.f = cur.f @@
                           [pub_date |-> IF b.pub_date # << >> THEN b.pub_date
                                         ELSE cur.f.search_pub_date,
                            applicant_name |-> IF b.applicant_name # << >>
                                               THEN b.applicant_name
                                               ELSE cur.f.search_applicant,
                            applicant_country |-> IF b.applicant_country # << >>
                                                  THEN b.applicant_country
                                                  ELSE cur.f.search_applicant_country]]
                   /\ pc' = after_biblio(resp.kind = "ok")
    /\ UNCHANGED <<input_vars, token, search_vars, page_vars, all_records,
                   outcome, search_log, register_called, page_failed, short_page,
                   lookups, taken, pure_vars>>

FetchBiblio == FetchBiblioOn([doc \in SearchDocs |-> BiblioResponses(doc)])

\* lines 389-393: one pass of the loop of extract_cpc_data; at its return the
\* register lookups follow when asked for
FetchCpcOn(Resps) ==
    /\ pc = "cpc"
    /\ hasty' = follows_at_once(sleep(since), "ops")
    /\ since' = request(sleep(since), "ops")
    /\ \E resp \in Resps[cur.doc] :
          IF resp.kind # "ok" /\ cur.url < Len(cpc_urls)
          THEN /\ cur' = [cur EXCEPT !.url = cur.url + 1]
               /\ UNCHANGED pc
          ELSE /\ cur' = [cur EXCEPT
                     !.url = 1,
                     !.cpc = IF resp.kind = "ok" THEN cpc_paths_loop(resp.root)
                             ELSE cpc_nothing,
                     !.reg_data = IF include_register THEN register_blank
                                  ELSE no_register_data]
               /\ pc' = IF include_register THEN "register" ELSE "record"
    /\ UNCHANGED <<input_vars, token, search_vars, page_vars, all_records,
                   outcome, search_log, ghost_flags, lookups, pure_vars>>

FetchCpc == FetchCpcOn([doc \in SearchDocs |-> CpcResponses(doc)])

\* lines 99-125: one pass of the loop of fetch_register_data
FetchRegisterOn(Resps) ==
    /\ pc = "register"
    /\ register_called' = TRUE
    /\ hasty' = follows_at_once(sleep(since), "register")
    /\ since' = request(sleep(since), "register")
    /\ \E resp \in Resps[cur.doc][endpoints[cur.url]] :
          cur' = [cur EXCEPT
              !.reg_data = register_pass(cur.reg_data, endpoints[cur.url], resp),
              !.reg_failed = IF resp = "ok" THEN cur.reg_failed
                             ELSE cur.reg_failed \cup {endpoints[cur.url]},
              !.url = IF cur.url < Len(endpoints) THEN cur.url + 1 ELSE 1]
    /\ pc' = IF cur.url < Len(endpoints) THEN "register" ELSE "record"
    /\ UNCHANGED <<input_vars, token, search_vars, page_vars, all_records,
                   outcome, search_log, detail_called, page_failed, short_page,
                   lookups, taken, pure_vars>>

FetchRegister ==
    FetchRegisterOn([doc \in SearchDocs |->
                        [key \in {"rep", "opp", "appeal"} |-> RegisterResponses(doc, key)]])

\* lines 396-408
EmitRecord ==
    /\ pc = "record"
    /\ all_records' = Append(all_records, make_record(cur.f, cur.cpc, cur.reg_data))
    /\ lookups' = Append(lookups, [doc |-> cur.doc, register_failed |-> cur.reg_failed])
    /\ cur' = << >>
    /\ pc' = "docs"
    /\ UNCHANGED <<input_vars, token, search_vars, page_vars, outcome,
                   search_log, ghost_flags, pure_vars, rate_vars>>

\* lines 414-415 with the loop also left after a page that held fewer
\* numbered documents than its Range asked
leaves_loop_at_short_page ==
    cap_reached \/ page_numbered < end_idx - start_idx + 1

\* lines 414-415: the only break of the batch loop
leaves_loop == cap_reached

\* lines 324-326 and 410-415: the document loop ends, then the cap test
EndBatch ==
    /\ pc = "docs"
    /\ IF cap_reached THEN TRUE ELSE documents = 0
    /\ documents' = 0
    /\ short_page' = (short_page \/ page_numbered < end_idx - start_idx + 1)
    /\ IF leaves_loop
       THEN /\ pc' = "return"
            /\ UNCHANGED batch_num
       ELSE /\ batch_num' = batch_num + 1
            /\ pc' = "batch"
    /\ UNCHANGED <<input_vars, token, search_vars, cur, all_records, outcome,
                   search_log, detail_called, register_called, page_failed,
                   page_numbered, lookups, taken, pure_vars, rate_vars>>

\* line 299: the batch loop has run total_batches times
EndLoop ==
    /\ pc = "batch"
    /\ batch_num >= total_batches
    /\ pc' = "return"
    /\ UNCHANGED <<input_vars, token, search_vars, page_vars, cur,
                   all_records, outcome, search_log, ghost_flags, lookups, pure_vars, rate_vars>>

\* lines 417-418 and 478-480, 542-543: return all_records; if patents: ...
Return ==
    /\ pc = "return"
    /\ pc' = "done"
    /\ outcome' = IF all_records # << >> THEN "complete" ELSE "no_patents"
    /\ UNCHANGED <<input_vars, token, search_vars, page_vars, cur,
                   all_records, search_log, ghost_flags, lookups, pure_vars, rate_vars>>

Next ==
    \/ RunButton
    \/ Authenticate
    \/ SearchFirst
    \/ FetchBatch
    \/ NextDocument
    \/ FetchBiblio
    \/ FetchCpc
    \/ FetchRegister
    \/ EmitRecord
    \/ EndBatch
    \/ EndLoop
    \/ Return

Spec == Init /\ [][Next]_vars

(***************************************************************************)
(* SpecA: page size 5, 12 upstream results, max_patents 10, and an         *)
(* upstream that never fails: every request is answered, a page holds the  *)
(* documents of its Range, every document has a document number.  The      *)
(* batch loop of this run always ends at the cap test of line 414, so the  *)
(* exit of line 299 is left out of the next-state relation.                *)
(***************************************************************************)
InitA ==
    /\ pc = "idle" /\ outcome = "running"
    /\ client_ok = TRUE
    /\ max_patents = 10
    /\ batch_size = 5
    /\ include_register \in BOOLEAN
    /\ upstream_total = 12
    /\ token = None
    /\ total_results = 0 /\ total_to_fetch = 0 /\ total_batches = 0
    /\ batch_num = 0 /\ search_docs = 0 /\ documents = 0 /\ page_numbered = 0
    /\ cur = << >>
    /\ all_records = << >> /\ search_log = << >>
    /\ detail_called = FALSE /\ register_called = FALSE
    /\ page_failed = {} /\ short_page = FALSE /\ lookups = << >> /\ taken = 0
    /\ since = [family \in {"ops", "register"} |-> "none"] /\ hasty = FALSE
    /\ x_in = << >> /\ x_out = << >> /\ x_done = FALSE

TokenGranted ==
    {[raises |-> FALSE, status |-> 200, json |-> TRUE, access_token |-> Str(<<"t", "k">>)]}

FirstPageServed == {[kind |-> "ok", docs |-> Min(batch_size, upstream_total)]}

PageServed ==
    {[kind |-> "ok",
      docs |-> IF Min(end_idx, upstream_total) >= start_idx
               THEN Min(end_idx, upstream_total) - start_idx + 1 ELSE 0]}

NumberedDocs == {DocFull, DocBare}

BiblioServed(doc) == {[kind |-> "ok", body |-> biblio_of(doc)]}

CpcServed(doc) == {[kind |-> "ok", root |-> cpc_of(doc)]}

RegisterServed(doc, key) == IF key \in register_of(doc) THEN {"ok"} ELSE {"no_entries"}

NextA ==
    \/ RunButton
    \/ AuthenticateOn(TokenGranted)
    \/ SearchFirstOn(FirstPageServed)
    \/ FetchBatchOn(PageServed)
    \/ NextDocumentOn(NumberedDocs)
    \/ FetchBiblioOn([doc \in SearchDocs |-> BiblioServed(doc)])
    \/ FetchCpcOn([doc \in SearchDocs |-> CpcServed(doc)])
    \/ FetchRegisterOn([doc \in SearchDocs |->
                           [key \in {"rep", "opp", "appeal"} |-> RegisterServed(doc, key)]])
    \/ EmitRecord
    \/ EndBatch
    \/ Return

SpecA == InitA /\ [][NextA]_vars

(***************************************************************************)
(* SpecPaging: runs long enough for three batches at the smallest batch    *)
(* size the page offers.  The token and search endpoints answer as in      *)
(* Spec and a page holds any documents; the biblio, classifications and    *)
(* register lookups are always answered, which keeps the number of         *)
(* distinct records small.                                                 *)
(***************************************************************************)
\* largest max_patents of a paging run
MaxPagingPatents == 5
\* largest number of results the upstream search holds in a paging run
MaxPagingTotal == 5

InitPaging ==
    /\ pc = "idle" /\ outcome = "running"
    /\ client_ok = TRUE
    /\ max_patents \in 1..MaxPagingPatents
    /\ batch_size \in BatchSizes
    /\ include_register \in BOOLEAN
    /\ upstream_total \in 0..MaxPagingTotal
    /\ token = None
    /\ total_results = 0 /\ total_to_fetch = 0 /\ total_batches = 0
    /\ batch_num = 0 /\ search_docs = 0 /\ documents = 0 /\ page_numbered = 0
    /\ cur = << >>
    /\ all_records = << >> /\ search_log = << >>
    /\ detail_called = FALSE /\ register_called = FALSE
    /\ page_failed = {} /\ short_page = FALSE /\ lookups = << >> /\ taken = 0
    /\ since = [family \in {"ops", "register"} |-> "none"] /\ hasty = FALSE
    /\ x_in = << >> /\ x_out = << >> /\ x_done = FALSE

NextPaging ==
    \/ RunButton
    \/ Authenticate
    \/ SearchFirst
    \/ FetchBatch
    \/ NextDocument
    \/ FetchBiblioOn([doc \in SearchDocs |-> BiblioServed(doc)])
    \/ FetchCpcOn([doc \in SearchDocs |-> CpcServed(doc)])
    \/ FetchRegisterOn([doc \in SearchDocs |->
                           [key \in {"rep", "opp", "appeal"} |-> RegisterServed(doc, key)]])
    \/ EmitRecord
    \/ EndBatch
    \/ EndLoop
    \/ Return

SpecPaging == InitPaging /\ [][NextPaging]_vars

(***************************************************************************)
(* C1: the accumulated record list never holds more than max_patents       *)
(* records, at any point of any run.                                       *)
(***************************************************************************)
C1_NeverMoreThanMax == Len(all_records) <= max_patents

\* the cap is reached while the page still holds documents
C1_Witness ==
    /\ pc = "docs"
    /\ documents > 0
    /\ Len(all_records) = max_patents

(***************************************************************************)
(* C2 as stated: the run returns fewer than max_patents records only if    *)
(* the upstream holds fewer than max_patents results or the run was given  *)
(* up (no credentials, no token, the first search request failed).         *)
(***************************************************************************)
GivenUp == outcome \in {"no_credentials", "auth_failed", "search_failed"}

C2_FewerOnlyIfExhaustedOrGivenUp ==
    (pc = "done" /\ Len(all_records) < max_patents) =>
        (upstream_total < max_patents \/ GivenUp)

(***************************************************************************)
(* C2 amended: the run returns fewer than max_patents records only if the  *)
(* upstream holds fewer than max_patents results, the run was given up, a  *)
(* later page request failed, or a page held fewer documents with a        *)
(* document number than its Range asked for; otherwise it returns exactly  *)
(* max_patents records.                                                    *)
(***************************************************************************)
C2_FewerOnlyIfExhaustedGivenUpOrPageLost ==
    /\ (pc = "done" /\ Len(all_records) < max_patents) =>
          (upstream_total < max_patents \/ GivenUp \/ page_failed # {} \/ short_page)
    /\ (pc = "done" /\ outcome = "complete"
            /\ upstream_total >= max_patents /\ page_failed = {} /\ ~short_page) =>
          Len(all_records) = max_patents

\* a later page request failed and the run returned fewer records than asked
C2_Witness ==
    /\ pc = "done"
    /\ outcome = "complete"
    /\ upstream_total >= max_patents
    /\ page_failed # {}
    /\ ~short_page
    /\ Len(all_records) < max_patents

(***************************************************************************)
(* C3: when get_token yields no token (None or the empty string) the run   *)
(* ends as an authentication failure with no record, and no request goes   *)
(* to the search, detail or register endpoints; the search is entered only *)
(* with a non-empty token.                                                 *)
(***************************************************************************)
NoToken == token.none \/ token.s = << >>

C3_NoTokenNoRequest ==
    /\ (client_ok /\ pc \notin {"idle", "auth"} /\ NoToken) =>
          /\ pc = "done"
          /\ outcome = "auth_failed"
          /\ all_records = << >>
          /\ search_log = << >>
          /\ ~detail_called
          /\ ~register_called
    /\ (pc \notin {"idle", "auth", "done"} \/ search_log # << >>) => ~NoToken

\* get_token returned the empty string
C3_Witness ==
    /\ pc = "done"
    /\ outcome = "auth_failed"
    /\ token = Str(<< >>)

(***************************************************************************)
(* C4 as stated: once a token is held, no failure of a search request, the *)
(* first one included, ends the search before every page of the result     *)
(* set (up to max_patents) has been asked for.                             *)
(***************************************************************************)
PagesToAsk == Ceil(Min(upstream_total, max_patents), batch_size)

C4_NoSearchFailureEndsTheSearch ==
    (pc = "done" /\ ~token.none /\ token.s # << >> /\ Len(all_records) < max_patents) =>
        Len(search_log) >= PagesToAsk

(***************************************************************************)
(* C4 amended: once the first search request has succeeded, no failure of  *)
(* a later page request ends the search: unless the cap is reached, every  *)
(* page is asked for.  A failure of the first search request ends the run  *)
(* with an empty list after that one request.                              *)
(***************************************************************************)
C4_LaterFailuresDoNotEndTheSearch ==
    /\ (pc = "done" /\ outcome \in {"complete", "no_patents"}
            /\ Len(all_records) < max_patents) =>
          /\ Len(search_log) >= PagesToAsk
          /\ Len(search_log) = IF total_batches = 0 THEN 1 ELSE total_batches
    /\ outcome = "search_failed" =>
          /\ pc = "done"
          /\ all_records = << >>
          /\ Len(search_log) = 1

\* the second page request failed and the third page was asked for
C4_Witness ==
    /\ pc = "done"
    /\ 1 \in page_failed
    /\ search_log = << <<1, 2>>, <<3, 4>>, <<5, 5>> >>

(***************************************************************************)
(* C5: a step in which a page request fails leaves the accumulated records *)
(* as they were and moves to the next batch without reading documents, and *)
(* no step ever removes or moves a record already accumulated.             *)
(***************************************************************************)
IsPrefix(a, b) == Len(a) <= Len(b) /\ SubSeq(b, 1, Len(a)) = a

C5_PageFailureKeepsRecords ==
    [][ /\ IsPrefix(all_records, all_records')
        /\ page_failed' # page_failed =>
              /\ all_records' = all_records
              /\ taken' = taken
              /\ pc' = "batch"
      ]_vars

\* two records before the failed page, both returned
C5_Witness ==
    /\ pc = "done"
    /\ batch_size = 2
    /\ page_failed = {1}
    /\ Len(search_log) = 2
    /\ ~short_page
    /\ Len(all_records) = 2

(***************************************************************************)
(* C6: every document for which line 337 finds a document number gets      *)
(* exactly one record, whatever its biblio, classification and register    *)
(* lookups answer; the record carries the document's identity and, for the *)
(* biblio fields, the upstream's value or else the search result's.        *)
(***************************************************************************)
InLookups == pc \in {"biblio", "cpc", "register", "record"}

BiblioValues(doc) ==
    [Publication_Date |->
        {biblio_found(biblio_of(doc)).pub_date, search_fields(doc).search_pub_date},
     Applicant_Name |->
        {biblio_found(biblio_of(doc)).applicant_name, search_fields(doc).search_applicant},
     Applicant_Country |->
        {biblio_found(biblio_of(doc)).applicant_country,
         search_fields(doc).search_applicant_country}]

C6_OneRecordPerNumberedDocument ==
    /\ Len(all_records) + (IF InLookups THEN 1 ELSE 0) = taken
    /\ Len(lookups) = Len(all_records)
    /\ \A k \in 1..Len(all_records) :
          /\ all_records[k].OID = lookups[k].doc.oid
          /\ all_records[k].Document_Number = search_fields(lookups[k].doc).doc_num
          /\ \A f \in {"Publication_Date", "Applicant_Name", "Applicant_Country"} :
                all_records[k][f] \in BiblioValues(lookups[k].doc)[f]

\* three records; the second document's lookups all failed, the third's
\* biblio and classification lookups succeeded
C6_Witness ==
    /\ pc = "done"
    /\ Len(all_records) = 3
    /\ lookups[2].doc = DocFull
    /\ all_records[2].Publication_Date = <<"d", "1">>
    /\ all_records[2].CPC_Full = << >>
    /\ lookups[3].doc = DocFull
    /\ all_records[3].Publication_Date = <<"d", "9">>
    /\ all_records[3].CPC_Main = <<"A", "0", "1", "B">>

(***************************************************************************)
(* C7 as stated: with page size 5, 12 upstream results, max_patents 10 and *)
(* no failures, the run asks for two full pages and then a third page, and *)
(* returns exactly 10 records.                                             *)
(***************************************************************************)
C7_ThreePageRequests ==
    pc = "done" => (Len(search_log) = 3 /\ Len(all_records) = 10)

(***************************************************************************)
(* C7 amended: with page size 5, 12 upstream results, max_patents 10 and   *)
(* no failures, the run asks for exactly two pages, Range 1-5 and Range    *)
(* 6-10, never for a third, and returns exactly 10 records.                *)
(***************************************************************************)
C7_TwoPageRequests ==
    /\ Len(search_log) <= 2
    /\ pc = "done" =>
          /\ search_log = << <<1, 5>>, <<6, 10>> >>
          /\ Len(all_records) = 10
          /\ outcome = "complete"

C7_Witness ==
    /\ pc = "done"
    /\ Len(all_records) = 10
    /\ Len(search_log) = 2

(***************************************************************************)
(* C10: without include_register no register request is made and no record *)
(* has a register field; with it every record has all seven register       *)
(* fields, and the fields of a lookup that failed or returned nothing are   *)
(* empty strings.                                                          *)
(***************************************************************************)
FieldsOf(key) ==
    IF key = "rep" THEN {"RepName", "RepCountry"}
    ELSE IF key = "opp" THEN {"OpponentName", "OppositionFilingDate"}
    ELSE {"AppealNr", "AppealResult", "AppealDate"}

C10_RegisterFieldsOnlyOnRequest ==
    /\ ~include_register =>
          /\ ~register_called
          /\ \A k \in 1..Len(all_records) :
                DOMAIN all_records[k] \cap RegisterFields = {}
    /\ include_register =>
          \A k \in 1..Len(all_records) :
             /\ RegisterFields \subseteq DOMAIN all_records[k]
             /\ \A key \in lookups[k].register_failed :
                   \A f \in FieldsOf(key) : all_records[k][f] = << >>

\* a record whose representative lookup answered and whose other two
\* lookups gave nothing
C10_Witness ==
    /\ include_register
    /\ pc = "done"
    /\ Len(all_records) >= 1
    /\ lookups[1].register_failed = {"opp", "appeal"}
    /\ all_records[1].RepName = <<"R">>
    /\ all_records[1].AppealDate = << >>

(***************************************************************************)
(* C11 as stated: once a page has held fewer numbered documents than its   *)
(* Range asked for, no further request goes to the search endpoint.        *)
(***************************************************************************)
C11_NoRequestAfterShortPage == [][short_page => search_log' = search_log]_vars

(***************************************************************************)
(* C11 amended: a short page does not end the paging.  The batch loop is   *)
(* left only when the cap is reached or when every one of the              *)
(* total_batches pages has been asked for: a run that got past the first   *)
(* search returns either with max_patents records or with one search       *)
(* request per batch (the first search standing for batch 0), and never    *)
(* sends more.                                                             *)
(***************************************************************************)
PagesOfRun == IF total_batches > 1 THEN total_batches ELSE 1

C11_StopsOnlyAtCapOrLastPage ==
    /\ (pc \notin {"idle", "auth", "search"} /\ outcome # "search_failed"
            /\ search_log # << >>) =>
          Len(search_log) <= PagesOfRun
    /\ (pc \in {"return", "done"} /\ outcome # "search_failed"
            /\ search_log # << >>) =>
          (Len(all_records) >= max_patents \/ Len(search_log) = PagesOfRun)

\* the first page held fewer than its two documents with a number and the
\* second page was asked for all the same
C11_Witness ==
    /\ pc = "done"
    /\ batch_size = 2
    /\ page_failed = {}
    /\ search_log = << <<1, 2>>, <<3, 3>> >>
    /\ Len(all_records) <= 1

(***************************************************************************)
(* C12 as stated: no request follows the previous request of its API       *)
(* family without a time.sleep between the two, in any run.                *)
(***************************************************************************)
C12_SleepBetweenRequests == ~hasty

(***************************************************************************)
(* C13 as stated: the j-th request to the search endpoint asks for the     *)
(* Range that starts at (j-1)*batch_size + 1 and covers batch_size         *)
(* positions.                                                              *)
(***************************************************************************)
C13_EveryRangeIsAFullPage ==
    \A j \in 1..Len(search_log) :
       search_log[j] = <<(j - 1) * batch_size + 1, j * batch_size>>

(***************************************************************************)
(* C13 amended: the j-th request to the search endpoint starts at          *)
(* (j-1)*batch_size + 1, so the offset advances by exactly batch_size from *)
(* one request to the next.  The first request always asks for             *)
(* 1..batch_size, whatever the upstream holds.  Every later request ends   *)
(* at its start + batch_size - 1 or at min(total_results, max_patents),    *)
(* whichever is smaller: a later request that is not the last covers       *)
(* batch_size positions, the last may cover fewer, and none is empty.      *)
(***************************************************************************)
C13_RangesAdvanceByPageSize ==
    \A j \in 1..Len(search_log) :
       /\ search_log[j][1] = (j - 1) * batch_size + 1
       /\ search_log[j][2] =
             IF j = 1 THEN batch_size
             ELSE Min(j * batch_size, Min(total_results, max_patents))
       /\ search_log[j][1] <= search_log[j][2]
       /\ (search_log[j][2] - search_log[j][1] + 1 < batch_size) =>
             (j > 1 /\ j = Len(search_log))

\* three requests with page size 2 and five records to fetch, none failed:
\* a full first page, a full page between the first and the last, and a
\* last request for the single position 5
C13_Witness ==
    /\ pc = "done"
    /\ batch_size = 2
    /\ total_to_fetch = 5
    /\ page_failed = {}
    /\ search_log = << <<1, 2>>, <<3, 4>>, <<5, 5>> >>

====
